---- MODULE Spec2Model ----
(***************************************************************************)
(* Model of the kernel heap of src/src/kheap.c: heap_create, heap_resize,  *)
(* find_smallest_hole, add_hole, kalloc_heap and kfree_heap, over a sparse *)
(* memory of machine words.  Addresses and sizes are size_t values; all    *)
(* arithmetic on them is modular.                                          *)
(***************************************************************************)
EXTENDS Integers, Sequences, FiniteSets, TLC

\* ------------------------------------------------------------------------
\* Machine parameters and the declarations of kheap.h / common.h /
\* sorted_array.h (these headers are not part of the source tree).
\* ------------------------------------------------------------------------

\* size_t and pointers wrap at WORD; 2^30 is the widest modulus for which the
\* sum of two words stays inside the model checker's integers.
WORD == 2^30

PAGE_SIZE == 4096

\* struct header { magic; allocated; size }, struct footer { magic; header }
SIZEOF_HEADER == 12
SIZEOF_FOOTER == 8
\* sizeof(footer) where footer is a `struct footer *`
SIZEOF_POINTER == 4
\* offsets of the fields inside the two structures
OFF_MAGIC == 0
OFF_ALLOCATED == 4
OFF_SIZE == 8
OFF_FHEADER == 4

HEAP_MAGIC == 305696939

\* sizeof(struct sorted_array) and the number of slots of the free list
SIZEOF_SORTED_ARRAY == 16
HEAP_FREE_LIST_SIZE == 32

\* ------------------------------------------------------------------------
\* Bounds of the exploration
\* ------------------------------------------------------------------------
\* number of kalloc_heap / kfree_heap calls in a run
MaxOps == 4
\* pages between the aligned start address and the initial end address
InitPages == 2
\* pages between the initial end address and max_address
GrowPages == 2

\* first byte of the memory handed to heap_create
RawStart == 65536
\* request sizes offered to kalloc_heap
Sizes == {33, 64, 4064, 8100}
\* values an uninitialised word may be read as
JunkVals == {0, HEAP_MAGIC}

\* ------------------------------------------------------------------------
\* size_t arithmetic
\* ------------------------------------------------------------------------
Add(a, b) == (a + b) % WORD
Sub(a, b) == ((a - b) + WORD) % WORD
\* the value of a size_t converted to ssize_t
Signed(a) == IF a >= WORD \div 2 THEN a - WORD ELSE a

\* ------------------------------------------------------------------------
\* Memory: a partial map from the address of a word to its value.  A word
\* that was never written reads as the junk value of the current call.
\* ------------------------------------------------------------------------
Rd(m, j, a) == IF a \in DOMAIN m THEN m[a] ELSE j

\* a word write destroys the words that overlap it at unaligned offsets
Wr(m, a, v) ==
  LET clob == {Sub(a, 1), Sub(a, 2), Sub(a, 3), Add(a, 1), Add(a, 2), Add(a, 3)}
      keep == (DOMAIN m \ clob) \cup {a}
  IN  [x \in keep |-> IF x = a THEN v ELSE m[x]]

\* u8int field: the low byte of the word at a
RdByte(m, j, a) == Rd(m, j, a) % 256

WrByte(m, a, v) ==
  LET clob == {Sub(a, 1), Sub(a, 2), Sub(a, 3)}
      keep == (DOMAIN m \ clob) \cup {a}
      old  == IF a \in DOMAIN m THEN m[a] ELSE 0
  IN  [x \in keep |-> IF x = a THEN (old - (old % 256)) + v ELSE m[x]]

\* header fields
HMagic(m, j, h) == Rd(m, j, Add(h, OFF_MAGIC))
HAllocated(m, j, h) == RdByte(m, j, Add(h, OFF_ALLOCATED))
HSize(m, j, h) == Rd(m, j, Add(h, OFF_SIZE))
SetHMagic(m, h, v) == Wr(m, Add(h, OFF_MAGIC), v)
SetHAllocated(m, h, v) == WrByte(m, Add(h, OFF_ALLOCATED), v)
SetHSize(m, h, v) == Wr(m, Add(h, OFF_SIZE), v)
\* footer fields
FMagic(m, j, f) == Rd(m, j, Add(f, OFF_MAGIC))
FHeader(m, j, f) == Rd(m, j, Add(f, OFF_FHEADER))
SetFMagic(m, f, v) == Wr(m, Add(f, OFF_MAGIC), v)
SetFHeader(m, f, v) == Wr(m, Add(f, OFF_FHEADER), v)

\* ------------------------------------------------------------------------
\* sorted_array (external container): ascending by the comparator
\* ------------------------------------------------------------------------
header_less_than(m, j, a, b) == IF HSize(m, j, a) < HSize(m, j, b) THEN 1 ELSE 0

InsertAt(s, i, x) == SubSeq(s, 1, i) \o <<x>> \o SubSeq(s, i + 1, Len(s))

RECURSIVE InsertPos(_, _, _, _, _)
InsertPos(m, j, s, item, i) ==
  IF i < Len(s) /\ header_less_than(m, j, s[i + 1], item) = 1
    THEN InsertPos(m, j, s, item, i + 1)
    ELSE i

sorted_array_insert(m, j, item, s) == InsertAt(s, InsertPos(m, j, s, item, 0), item)

\* removal of an index past the end drops nothing
sorted_array_remove(i, s) ==
  IF i < Len(s) THEN SubSeq(s, 1, i) \o SubSeq(s, i + 2, Len(s)) ELSE s

sorted_array_lookup(i, s) == s[i + 1]

\* ------------------------------------------------------------------------
\* align
\* ------------------------------------------------------------------------
align(p) == p - (p % PAGE_SIZE)

\* ------------------------------------------------------------------------
\* heap_create: the free list is placed at the start of the memory, the start
\* address is moved past it and rounded up to a page, and one hole spanning
\* [start, end) is added.
\* ------------------------------------------------------------------------
CreateStart(raw) ==
  LET s == Add(raw, SIZEOF_SORTED_ARRAY + SIZEOF_POINTER * HEAP_FREE_LIST_SIZE)
  IN  IF align(s) # s THEN Add(align(s), PAGE_SIZE) ELSE s

\* add_hole: writes a header at start (no footer) and indexes it
add_hole(m, j, fl, start, end) ==
  LET m1 == SetHSize(m, start, Sub(end, start))
      m2 == SetHMagic(m1, start, HEAP_MAGIC)
      m3 == SetHAllocated(m2, start, 0)
  IN  [mem |-> m3, fl |-> sorted_array_insert(m3, j, start, fl)]

EmptyMem == [x \in {} |-> 0]

heap_create(raw, end, max) ==
  LET s == CreateStart(raw)
      h == add_hole(EmptyMem, 0, <<>>, s, end)
  IN  [mem |-> h.mem, fl |-> h.fl, start |-> s, end |-> end, max |-> max]

\* ------------------------------------------------------------------------
\* heap_resize: rc is the s8int result, end the new end_address
\* ------------------------------------------------------------------------
RoundUp(n) == IF align(n) # n THEN Add(align(n), PAGE_SIZE) ELSE n

\* heap_resize without the test against max_address
heap_resize_unchecked(new_size, start, end, max) ==
  [rc |-> 0, end |-> Add(start, RoundUp(new_size))]

heap_resize(new_size, start, end, max) ==
  LET ns  == RoundUp(new_size)
      cur == Sub(end, start)
  IN  IF ns > cur /\ Add(start, ns) > max
        THEN [rc |-> -1, end |-> end]
        ELSE [rc |-> 0, end |-> Add(start, ns)]

\* ------------------------------------------------------------------------
\* find_smallest_hole: index (from 0) of the first entry that fits, or -1
\* ------------------------------------------------------------------------
\* (location + sizeof(struct header)) & (0xFFFFF000 != 0): the low bit
NeedsOffset(location) == (Add(location, SIZEOF_HEADER) % 2) # 0

HoleFits(m, j, header, size, page_align) ==
  IF page_align > 0
    THEN LET offset == IF NeedsOffset(header)
                         THEN PAGE_SIZE - (Add(header, SIZEOF_HEADER) % PAGE_SIZE)
                         ELSE 0
             hole_size == Signed(HSize(m, j, header)) - offset
         IN  hole_size >= Signed(size)
    ELSE HSize(m, j, header) >= size

RECURSIVE FindFrom(_, _, _, _, _, _)
FindFrom(m, j, fl, size, page_align, iterator) ==
  IF iterator < Len(fl)
    THEN IF HoleFits(m, j, sorted_array_lookup(iterator, fl), size, page_align)
           THEN iterator
           ELSE FindFrom(m, j, fl, size, page_align, iterator + 1)
    ELSE -1

find_smallest_hole(m, j, fl, size, page_align) ==
  FindFrom(m, j, fl, size, page_align, 0)

\* ------------------------------------------------------------------------
\* kalloc_heap
\* ------------------------------------------------------------------------
\* the loop that finds the entry with the highest address: idx and value
RECURSIVE Endmost(_, _, _, _)
Endmost(fl, iterator, idx, value) ==
  IF iterator < Len(fl)
    THEN LET tmp == sorted_array_lookup(iterator, fl)
         IN  IF tmp > value
               THEN Endmost(fl, iterator + 1, iterator, tmp)
               ELSE Endmost(fl, iterator + 1, idx, value)
    ELSE idx

\* the branch taken when no hole fits: resize, then extend the endmost hole
\* or add a header at the old end address
GrowStep(m, j, fl, start, end, max, new_size) ==
  LET old_length == Sub(end, start)
      old_end_address == end
      r == heap_resize(Add(old_length, new_size), start, end, max)
      new_length == Sub(r.end, start)
      idx == Endmost(fl, 0, -1, 0)
  IN  IF idx = -1
        THEN LET header == old_end_address
                 m1 == SetHMagic(m, header, HEAP_MAGIC)
                 m2 == SetHSize(m1, header, Sub(new_length, old_length))
                 m3 == SetHAllocated(m2, header, 0)
                 footer == Sub(Add(old_end_address, HSize(m3, j, header)),
                               SIZEOF_POINTER)
                 m4 == SetFMagic(m3, footer, HEAP_MAGIC)
                 m5 == SetFHeader(m4, footer, header)
             IN  [mem |-> m5, fl |-> sorted_array_insert(m5, j, header, fl),
                  end |-> r.end, rc |-> r.rc]
        ELSE LET header == sorted_array_lookup(idx, fl)
                 m1 == SetHSize(m, header,
                         Add(HSize(m, j, header), Sub(new_length, old_length)))
                 footer == Sub(Add(header, HSize(m1, j, header)), SIZEOF_POINTER)
                 m2 == SetFHeader(m1, footer, header)
                 m3 == SetFMagic(m2, footer, HEAP_MAGIC)
             IN  [mem |-> m3, fl |-> fl, end |-> r.end, rc |-> r.rc]

\* NewLocation without room for the header in front of the page boundary
NewLocationNoHeader(orig_hole_pos) ==
  Sub(Add(orig_hole_pos, PAGE_SIZE), orig_hole_pos % PAGE_SIZE)

\* where the block goes when a page-aligned payload is asked for
NewLocation(orig_hole_pos) ==
  Sub(Sub(Add(orig_hole_pos, PAGE_SIZE), orig_hole_pos % PAGE_SIZE), SIZEOF_HEADER)

\* the part of kalloc_heap after a hole was found at index iterator
Carve(m, j, fl, end, size0, page_align, iterator) ==
  LET new_size0 == Add(Add(size0, SIZEOF_HEADER), SIZEOF_FOOTER)
      orig_hole_header == sorted_array_lookup(iterator, fl)
      orig_hole_pos0 == orig_hole_header
      orig_hole_size0 == HSize(m, j, orig_hole_header)
      absorb == Sub(orig_hole_size0, new_size0) < SIZEOF_HEADER + SIZEOF_FOOTER
      size == IF absorb THEN Add(size0, Sub(orig_hole_size0, new_size0)) ELSE size0
      new_size == IF absorb THEN orig_hole_size0 ELSE new_size0
      \* page_align && orig_hole_pos & 0xFFFFF000
      doalign == page_align # 0 /\ align(orig_hole_pos0) # 0
      new_location == NewLocation(orig_hole_pos0)
      prefix_size == Sub(Sub(PAGE_SIZE, orig_hole_pos0 % PAGE_SIZE), SIZEOF_HEADER)
      a1 == SetHSize(m, orig_hole_pos0, prefix_size)
      a2 == SetHMagic(a1, orig_hole_pos0, HEAP_MAGIC)
      a3 == SetHAllocated(a2, orig_hole_pos0, 0)
      hole_footer0 == Sub(new_location, SIZEOF_FOOTER)
      a4 == SetFMagic(a3, hole_footer0, HEAP_MAGIC)
      a5 == SetFHeader(a4, hole_footer0, orig_hole_pos0)
      m1 == IF doalign THEN a5 ELSE m
      fl1 == IF doalign THEN fl ELSE sorted_array_remove(iterator, fl)
      orig_hole_pos == IF doalign THEN new_location ELSE orig_hole_pos0
      orig_hole_size == IF doalign
                          THEN Sub(orig_hole_size0, HSize(a5, j, orig_hole_pos0))
                          ELSE orig_hole_size0
      \* the allocated block
      block_header == orig_hole_pos
      b1 == SetHMagic(m1, block_header, HEAP_MAGIC)
      b2 == SetHAllocated(b1, block_header, 1)
      b3 == SetHSize(b2, block_header, new_size)
      block_footer == Add(Add(orig_hole_pos, SIZEOF_HEADER), size)
      b4 == SetFMagic(b3, block_footer, HEAP_MAGIC)
      b5 == SetFHeader(b4, block_footer, block_header)
      \* the hole after the block
      rest == Sub(orig_hole_size, new_size)
      hole_header == Add(Add(Add(orig_hole_pos, SIZEOF_HEADER), size), SIZEOF_FOOTER)
      c1 == SetHMagic(b5, hole_header, HEAP_MAGIC)
      c2 == SetHAllocated(c1, hole_header, 0)
      c3 == SetHSize(c2, hole_header, rest)
      hole_footer == Sub(Add(hole_header, rest), SIZEOF_FOOTER)
      c4 == SetFMagic(c3, hole_footer, HEAP_MAGIC)
      c5 == SetFHeader(c4, hole_footer, hole_header)
      c6 == IF hole_footer < end THEN c5 ELSE c3
  IN  [mem |-> IF rest > 0 THEN c6 ELSE b5,
       fl  |-> IF rest > 0 THEN sorted_array_insert(c6, j, hole_header, fl1) ELSE fl1,
       ret |-> Add(block_header, SIZEOF_HEADER), footer |-> block_footer,
       hole_pos |-> orig_hole_pos0, hole_size |-> orig_hole_size0,
       size |-> size, new_size |-> new_size, aligned |-> doalign,
       prefix |-> IF doalign THEN prefix_size ELSE 0, rest |-> rest]

\* a failed heap_resize leaves the next round where this one started, so the
\* recursion is followed for one round more than the region has pages to grow
MaxRetry == GrowPages + 2

\* kalloc_heap(size, page_align, heap); returned = FALSE when the recursion
\* does not come back
RECURSIVE kalloc_heap(_, _, _, _, _, _, _, _, _, _)
kalloc_heap(m, j, fl, start, end, max, size, page_align, rounds, fuel) ==
  LET new_size == Add(Add(size, SIZEOF_HEADER), SIZEOF_FOOTER)
      iterator == find_smallest_hole(m, j, fl, new_size, page_align)
  IN  IF iterator = -1
        THEN IF fuel = 0
               THEN [returned |-> FALSE, mem |-> m, fl |-> fl, end |-> end,
                     ret |-> 0, footer |-> 0, rounds |-> rounds, hole_pos |-> 0,
                     hole_size |-> 0, size |-> size, new_size |-> new_size,
                     aligned |-> FALSE, prefix |-> 0, rest |-> 0]
               ELSE LET g == GrowStep(m, j, fl, start, end, max, new_size)
                    IN  kalloc_heap(g.mem, j, g.fl, start, g.end, max, size,
                                    page_align, rounds + 1, fuel - 1)
        ELSE LET c == Carve(m, j, fl, end, size, page_align, iterator)
             IN  [returned |-> TRUE, mem |-> c.mem, fl |-> c.fl, end |-> end,
                  ret |-> c.ret, footer |-> c.footer, rounds |-> rounds,
                  hole_pos |-> c.hole_pos,
                  hole_size |-> c.hole_size, size |-> c.size,
                  new_size |-> c.new_size, aligned |-> c.aligned,
                  prefix |-> c.prefix, rest |-> c.rest]

\* ------------------------------------------------------------------------
\* kfree_heap
\* ------------------------------------------------------------------------
\* the loop that looks an address up in the free list: its index, or the
\* size of the list
RECURSIVE IndexOf(_, _, _)
IndexOf(fl, item, iterator) ==
  IF iterator < Len(fl) /\ sorted_array_lookup(iterator, fl) # item
    THEN IndexOf(fl, item, iterator + 1)
    ELSE iterator

\* coalescing with the block on the left
MergeLeft(m, j, header0, footer) ==
  LET test_footer == Sub(header0, SIZEOF_FOOTER)
      hit == /\ FMagic(m, j, test_footer) = HEAP_MAGIC
             /\ HAllocated(m, j, FHeader(m, j, test_footer)) = 0
      cache_size == HSize(m, j, header0)
      header == FHeader(m, j, test_footer)
      m1 == SetFHeader(m, footer, header)
      m2 == SetHSize(m1, header, Add(HSize(m1, j, header), cache_size))
  IN  IF hit
        THEN [mem |-> m2, header |-> header, do_add |-> 0]
        ELSE [mem |-> m, header |-> header0, do_add |-> 1]

\* coalescing with the block on the right
MergeRight(m, j, fl, header, footer0) ==
  LET test_header == Add(footer0, SIZEOF_FOOTER)
      hit == /\ HMagic(m, j, test_header) = HEAP_MAGIC
             /\ HAllocated(m, j, test_header) = 0
      m1 == SetHSize(m, header, Add(HSize(m, j, header), HSize(m, j, test_header)))
      test_footer == Sub(Add(test_header, HSize(m1, j, test_header)), SIZEOF_FOOTER)
      iterator == IndexOf(fl, test_header, 0)
  IN  IF hit
        THEN [mem |-> m1, fl |-> sorted_array_remove(iterator, fl),
              footer |-> test_footer, test_header |-> test_header,
              hit |-> TRUE, missing |-> iterator >= Len(fl)]
        ELSE [mem |-> m, fl |-> fl, footer |-> footer0,
              test_header |-> test_header, hit |-> FALSE, missing |-> FALSE]

\* contraction when the block ends at end_address
Contract(m, j, fl, start, end, max, header, footer0, test_header) ==
  LET old_length == Sub(end, start)
      r == heap_resize(Sub(header, start), start, end, max)
      \* the s8int result stored in a size_t
      new_length == IF r.rc = -1 THEN WORD - 1 ELSE 0
      shrink == Sub(old_length, new_length)
      m1 == SetHSize(m, header, Sub(HSize(m, j, header), shrink))
      footer == Sub(Add(header, HSize(m1, j, header)), SIZEOF_FOOTER)
      m2 == SetFMagic(m1, footer, HEAP_MAGIC)
      m3 == SetFHeader(m2, footer, header)
      iterator == IndexOf(fl, test_header, 0)
  IN  IF Add(footer0, SIZEOF_FOOTER) = end
        THEN IF Sub(HSize(m, j, header), shrink) > 0
               THEN [mem |-> m3, fl |-> fl, end |-> r.end, hit |-> TRUE]
               ELSE [mem |-> m,
                     fl |-> IF iterator < Len(fl)
                              THEN sorted_array_remove(iterator, fl) ELSE fl,
                     end |-> r.end, hit |-> TRUE]
        ELSE [mem |-> m, fl |-> fl, end |-> end, hit |-> FALSE]

\* kfree_heap without the test for a null pointer
kfree_heap_unguarded(m, j, fl, start, end, max, p) ==
  LET header0 == Sub(p, SIZEOF_HEADER)
      footer0 == Sub(Add(header0, HSize(m, j, header0)), SIZEOF_FOOTER)
      m1 == SetHAllocated(m, header0, 0)
      l  == MergeLeft(m1, j, header0, footer0)
      r  == MergeRight(l.mem, j, fl, l.header, footer0)
      c  == Contract(r.mem, j, r.fl, start, end, max, l.header, r.footer,
                     r.test_header)
  IN  [mem |-> c.mem,
       fl  |-> IF l.do_add = 1
                 THEN sorted_array_insert(c.mem, j, l.header, c.fl)
                 ELSE c.fl,
       end |-> c.end, left |-> l.do_add = 0,
       right |-> r.hit, contracted |-> c.hit,
       missing |-> r.missing, header |-> l.header]

kfree_heap(m, j, fl, start, end, max, p) ==
  IF p = 0
    THEN [mem |-> m, fl |-> fl, end |-> end, left |-> FALSE, right |-> FALSE,
          contracted |-> FALSE, missing |-> FALSE, header |-> 0]
    ELSE
      LET header0 == Sub(p, SIZEOF_HEADER)
          footer0 == Sub(Add(header0, HSize(m, j, header0)), SIZEOF_FOOTER)
          m1 == SetHAllocated(m, header0, 0)
          l  == MergeLeft(m1, j, header0, footer0)
          r  == MergeRight(l.mem, j, fl, l.header, footer0)
          c  == Contract(r.mem, j, r.fl, start, end, max, l.header, r.footer,
                         r.test_header)
      IN  [mem |-> c.mem,
           fl  |-> IF l.do_add = 1
                     THEN sorted_array_insert(c.mem, j, l.header, c.fl)
                     ELSE c.fl,
           end |-> c.end, left |-> l.do_add = 0,
           right |-> r.hit, contracted |-> c.hit,
           missing |-> r.missing, header |-> l.header]

\* ------------------------------------------------------------------------
\* State
\* ------------------------------------------------------------------------
VARIABLES
  mem,            \* the words written so far
  free_list,      \* heap->free_list: the indexed headers, in array order
  start_address,  \* heap->start_address
  end_address,    \* heap->end_address
  max_address,    \* heap->max_address
  live,           \* pointers returned by kalloc_heap and not yet freed
  pc,             \* "ready", or "diverged" once a call does not return
  nops,           \* number of calls made
  last            \* what the last call did

vars == <<mem, free_list, start_address, end_address, max_address, live, pc,
          nops, last>>

Created == heap_create(RawStart, Add(CreateStart(RawStart), InitPages * PAGE_SIZE),
                       Add(CreateStart(RawStart), (InitPages + GrowPages) * PAGE_SIZE))

NoCall == [op |-> "create"]

Init ==
  /\ mem = Created.mem
  /\ free_list = Created.fl
  /\ start_address = Created.start
  /\ end_address = Created.end
  /\ max_address = Created.max
  /\ live = {}
  /\ pc = "ready"
  /\ nops = 0
  /\ last = NoCall

\* the sizes of the indexed holes, added up
RECURSIVE ListBytes(_, _, _, _)
ListBytes(m, j, fl, i) ==
  IF i > Len(fl)
    THEN 0
    ELSE LET rest == ListBytes(m, j, fl, i + 1)
             sz == HSize(m, j, fl[i])
         IN  IF sz >= WORD - rest THEN WORD ELSE sz + rest

\* the sizes of the indexed holes that are large enough for a request
FitSizes(m, j, fl, size) ==
  {HSize(m, j, fl[i]) : i \in {k \in 1..Len(fl) :
      HSize(m, j, fl[k]) >= Add(Add(size, SIZEOF_HEADER), SIZEOF_FOOTER)}}

\* the block that the first round of growth of a call extends or creates, as
\* it is when kalloc_heap calls itself at line 282: its header, its size, the
\* end address after heap_resize, and whether it reaches into the block of
\* one of the pointers in ps
GrowObs(m, j, fl, start, end, max, size, ps) ==
  LET new_size == Add(Add(size, SIZEOF_HEADER), SIZEOF_FOOTER)
      g == GrowStep(m, j, fl, start, end, max, new_size)
      idx == Endmost(fl, 0, -1, 0)
      header == IF idx = -1 THEN end ELSE sorted_array_lookup(idx, fl)
      hsize == HSize(g.mem, j, header)
  IN  [header |-> header, size |-> hsize, end |-> g.end,
       covers |-> \E p \in ps :
                    LET b == Sub(p, SIZEOF_HEADER)
                    IN  /\ hsize > 0
                        /\ HSize(g.mem, j, b) > 0
                        /\ header < b + HSize(g.mem, j, b)
                        /\ b < header + hsize]

NoGrow == [header |-> 0, size |-> 0, end |-> 0, covers |-> FALSE]

\* kalloc_heap(size, page_align, heap): the call returns a pointer, or the
\* recursion never comes back
Alloc(size, page_align, j) ==
  /\ pc = "ready"
  /\ nops < MaxOps
  /\ \E k \in {kalloc_heap(mem, j, free_list, start_address, end_address,
                           max_address, size, page_align, 0, MaxRetry)} :
      /\ nops' = nops + 1
      /\ last' = [op |-> "alloc", n |-> size, page_align |-> page_align,
                  outcome |-> IF k.returned THEN "pointer" ELSE "none",
                  ret |-> k.ret, footer |-> k.footer, rounds |-> k.rounds,
                  hole_pos |-> k.hole_pos,
                  hole_size |-> k.hole_size, size |-> k.size,
                  new_size |-> k.new_size, aligned |-> k.aligned,
                  prefix |-> k.prefix, rest |-> k.rest,
                  holes0 |-> Len(free_list),
                  bytes0 |-> ListBytes(mem, j, free_list, 1),
                  fits0 |-> FitSizes(mem, j, free_list, size),
                  end0 |-> end_address,
                  grow |-> IF k.rounds > 0
                             THEN GrowObs(mem, j, free_list, start_address,
                                          end_address, max_address, size, live)
                             ELSE NoGrow]
      /\ IF k.returned
           THEN /\ mem' = k.mem
                /\ free_list' = k.fl
                /\ end_address' = k.end
                /\ live' = live \cup {k.ret}
                /\ pc' = pc
           ELSE /\ pc' = "diverged"
                /\ UNCHANGED <<mem, free_list, end_address, live>>
      /\ UNCHANGED <<start_address, max_address>>

\* the two tests of lines 371-372 on the block of p: the magic numbers of
\* its header and of the footer that header->size leads to
MagicOk(m, j, p) ==
  LET header == Sub(p, SIZEOF_HEADER)
      footer == Sub(Add(header, HSize(m, j, header)), SIZEOF_FOOTER)
  IN  HMagic(m, j, header) = HEAP_MAGIC /\ FMagic(m, j, footer) = HEAP_MAGIC

\* kfree_heap(p, heap)
Free(p, j) ==
  /\ pc = "ready"
  /\ nops < MaxOps
  /\ \E f \in {kfree_heap(mem, j, free_list, start_address, end_address,
                          max_address, p)},
        undo \in {p # 0 /\ last.op = "alloc" /\ last.outcome = "pointer"
                    /\ last.ret = p} :
      /\ mem' = f.mem
      /\ free_list' = f.fl
      /\ end_address' = f.end
      /\ live' = live \ {p}
      /\ nops' = nops + 1
      /\ last' = [op |-> "free", p |-> p, left |-> f.left, right |-> f.right,
                  magic_ok |-> p = 0 \/ MagicOk(mem, j, p),
                  contracted |-> f.contracted, missing |-> f.missing,
                  header |-> f.header, undo |-> undo,
                  rounds |-> IF undo THEN last.rounds ELSE 0,
                  holes0 |-> IF undo THEN last.holes0 ELSE 0,
                  bytes0 |-> IF undo THEN last.bytes0 ELSE 0]
      /\ UNCHANGED <<start_address, max_address, pc>>

Next ==
  \/ \E size \in Sizes, page_align \in {0, 1}, j \in JunkVals :
       Alloc(size, page_align, j)
  \/ \E p \in live \cup {0}, j \in JunkVals : Free(p, j)

Spec == Init /\ [][Next]_vars

\* heap_resize(new_size, heap) called on its own
Resize(new_size) ==
  LET r == heap_resize(new_size, start_address, end_address, max_address)
  IN  /\ pc = "ready"
      /\ nops < MaxOps
      /\ end_address' = r.end
      /\ nops' = nops + 1
      /\ last' = [op |-> "resize", new_size |-> new_size, rc |-> r.rc,
                  end0 |-> end_address]
      /\ UNCHANGED <<mem, free_list, start_address, max_address, live, pc>>

\* sizes offered to heap_resize
ResizeSizes == {0, 1, PAGE_SIZE, 2 * PAGE_SIZE + 1,
                (InitPages + GrowPages) * PAGE_SIZE,
                (InitPages + GrowPages) * PAGE_SIZE + 1}

\* request sizes offered to kalloc_heap between the calls of heap_resize
ResizeAllocSizes == {64, 8100}

NextResize ==
  \/ \E new_size \in ResizeSizes : Resize(new_size)
  \/ \E size \in ResizeAllocSizes, j \in JunkVals : Alloc(size, 0, j)
  \/ \E p \in live, j \in JunkVals : Free(p, j)

SpecResize == Init /\ [][NextResize]_vars

\* ------------------------------------------------------------------------
\* Observations of a state
\* ------------------------------------------------------------------------
\* a walk visits at most this many blocks: every call adds at most two
WalkFuel == 2 * MaxOps + 2

\* the header addresses met when stepping from a by header.size up to
\* end_address; a block of size 0 ends the walk
RECURSIVE WalkFrom(_, _)
WalkFrom(a, fuel) ==
  IF fuel = 0 \/ a >= end_address \/ a < start_address
    THEN <<>>
    ELSE IF HSize(mem, 0, a) = 0
           THEN <<a>>
           ELSE <<a>> \o WalkFrom(Add(a, HSize(mem, 0, a)), fuel - 1)

Blocks == WalkFrom(start_address, WalkFuel)

SatAdd(x, y) == IF x >= WORD - y THEN WORD ELSE x + y

RECURSIVE SumSizes(_, _)
SumSizes(s, i) ==
  IF i > Len(s) THEN 0 ELSE SatAdd(HSize(mem, 0, s[i]), SumSizes(s, i + 1))

\* a written header that is marked free
IsFree(a) == HAllocated(mem, 1, a) = 0

\* C1: after create and after every completed call the sizes of the blocks
\* laid out between start_address and end_address add up to
\* end_address - start_address
C1_SizeConservation ==
  pc = "ready" => SumSizes(Blocks, 1) = Sub(end_address, start_address)

\* C2: a walk of the blocks from start_address to end_address never meets two
\* consecutive free blocks
C2_NoAdjacentFree ==
  pc = "ready" =>
    \A i \in 1..(Len(Blocks) - 1) : ~(IsFree(Blocks[i]) /\ IsFree(Blocks[i + 1]))

Returned == last.op = "alloc" /\ last.outcome = "pointer"

\* C3: a page-aligned request that returns a pointer returns a multiple of
\* the page size
C3_Alignment ==
  (Returned /\ last.page_align = 1) => last.ret % PAGE_SIZE = 0

\* a page-aligned request served from a hole whose payload start is not on
\* a page boundary
C3_Witness ==
  /\ Returned
  /\ last.page_align = 1
  /\ last.aligned
  /\ (last.hole_pos + SIZEOF_HEADER) % PAGE_SIZE # 0

\* C4: the n bytes at the returned pointer lie inside the hole selected for
\* the request, and the footer of the allocated block starts at or after
\* their end
C4_Capacity ==
  Returned =>
    /\ last.ret >= last.hole_pos
    /\ last.ret + last.n <= last.hole_pos + last.hole_size
    /\ last.footer >= last.ret + last.n

\* C5: every allocate call ends with a pointer or with OutOfMemory
C5_OutOfMemory ==
  last.op = "alloc" => last.outcome \in {"pointer", "OutOfMemory"}

\* C6: a non-growing allocate followed at once by the deallocate of its
\* pointer leaves the number of holes and the free bytes as they were
C6_RoundTrip ==
  (last.op = "free" /\ last.undo /\ last.rounds = 0) =>
    /\ Len(free_list) = last.holes0
    /\ ListBytes(mem, 0, free_list, 1) = last.bytes0

Min(S) == CHOOSE x \in S : \A y \in S : x <= y

\* C7: a non-aligned request for which some hole is large enough is carved
\* from a hole of the smallest sufficient size
C7_SmallestSufficient ==
  (last.op = "alloc" /\ last.page_align = 0 /\ last.fits0 # {}) =>
    /\ last.outcome = "pointer"
    /\ last.hole_size = Min(last.fits0)

\* C8: once every returned pointer has been deallocated the heap is as
\* heap_create left it
C8_FullRelease ==
  (pc = "ready" /\ nops > 0 /\ live = {}
     /\ last.op = "free" /\ last.p # 0) =>
    /\ free_list = Created.fl
    /\ start_address = Created.start
    /\ end_address = Created.end
    /\ HSize(mem, 0, start_address) = Sub(Created.end, Created.start)
    /\ IsFree(start_address)

\* C10: the free list holds each free block of the region once and nothing
\* else
C10_Membership ==
  pc = "ready" =>
    /\ {free_list[i] : i \in 1..Len(free_list)}
         = {Blocks[i] : i \in {k \in 1..Len(Blocks) : IsFree(Blocks[k])}}
    /\ Cardinality({free_list[i] : i \in 1..Len(free_list)}) = Len(free_list)

\* new_size rounded up to whole pages
Pages(n) == ((n + PAGE_SIZE - 1) \div PAGE_SIZE) * PAGE_SIZE

\* C9: heap_resize fails and leaves end_address alone when the rounded size
\* is larger than the region and start_address + rounded size is beyond
\* max_address; otherwise it succeeds with end_address = start_address +
\* rounded size; start_address <= end_address <= max_address throughout
C9_Resize ==
  /\ last.op = "resize" =>
       IF /\ Pages(last.new_size) > last.end0 - start_address
          /\ start_address + Pages(last.new_size) > max_address
         THEN last.rc = -1 /\ end_address = last.end0
         ELSE last.rc = 0 /\ end_address = start_address + Pages(last.new_size)
  /\ start_address <= end_address
  /\ end_address <= max_address

\* a heap_resize that was refused
C9_Witness ==
  /\ last.op = "resize"
  /\ last.rc = -1
  /\ end_address = last.end0

\* the footer that closes the block whose header is at a
FooterOf(a) == Sub(Add(a, HSize(mem, 0, a)), SIZEOF_FOOTER)

\* the block at a ends in a footer with the magic number that points back
\* at a
FooterValid(a) ==
  /\ FMagic(mem, 0, FooterOf(a)) = HEAP_MAGIC
  /\ FHeader(mem, 0, FooterOf(a)) = a

\* C11: after create and after every completed call every block of the
\* region ends, at header + header.size - sizeof(struct footer), in a valid
\* footer whose header field is the address of the block's header
C11_WellFormed ==
  pc = "ready" => \A i \in 1..Len(Blocks) : FooterValid(Blocks[i])

\* C12: kfree_heap of the null pointer leaves start_address, end_address,
\* every word of the blocks' headers and footers and the free list as they
\* were
C12_NullFree ==
  [][(last'.op = "free" /\ last'.p = 0)
       => UNCHANGED <<mem, free_list, start_address, end_address>>]_vars

\* the null pointer was freed while an allocation was live and a hole indexed
C12_Witness ==
  /\ last.op = "free"
  /\ last.p = 0
  /\ live # {}
  /\ Len(free_list) > 0

\* the bytes of the block whose header is at a: from Lo up to Hi
Lo(a) == a
Hi(a) == a + HSize(mem, 0, a)

Overlap(a, b) == Lo(a) < Hi(a) /\ Lo(b) < Hi(b) /\ Lo(a) < Hi(b) /\ Lo(b) < Hi(a)

\* header of the block a returned pointer belongs to
HeaderOf(p) == Sub(p, SIZEOF_HEADER)

\* C13: the blocks of the live pointers lie inside [start_address,
\* end_address), and overlap neither each other nor an indexed free block
C13_Disjoint ==
  pc = "ready" =>
    \A p \in live :
      /\ start_address <= Lo(HeaderOf(p))
      /\ Hi(HeaderOf(p)) <= end_address
      /\ \A q \in live \ {p} : ~Overlap(HeaderOf(p), HeaderOf(q))
      /\ \A i \in 1..Len(free_list) : ~Overlap(HeaderOf(p), free_list[i])

\* C14: every kalloc_heap call comes back, and a call that went through
\* rounds of growth raised end_address by at least a page in each of them
C14_Termination ==
  /\ pc # "diverged"
  /\ (Returned /\ last.rounds > 0) =>
       last.rounds * PAGE_SIZE <= end_address - last.end0

\* C15: when a kalloc_heap call grows the region from the old to a new end
\* address, then after the growth step one free block starts at or below the
\* old end address and ends at the new one, and it covers no allocated block
C15_GrowthTerminal ==
  (last.op = "alloc" /\ last.rounds > 0 /\ last.grow.end > last.end0) =>
    /\ last.grow.header <= last.end0
    /\ last.grow.header + last.grow.size = last.grow.end
    /\ ~last.grow.covers

\* how many entries of the free list are the header a
Count(a) == Cardinality({i \in 1..Len(free_list) : free_list[i] = a})

\* C16: when the block freed by kfree_heap, after coalescing, ends at
\* end_address, the call leaves end_address at start_address + the block's
\* start offset rounded up to a page; what is left of the block below it has
\* size end_address - block start, a footer ending at end_address and one
\* entry in the free list; a block of which nothing is left has no entry
C16_Contraction ==
  (last.op = "free" /\ last.contracted) =>
    /\ end_address = Add(start_address, RoundUp(Sub(last.header, start_address)))
    /\ IF last.header < end_address
         THEN /\ HSize(mem, 0, last.header) = end_address - last.header
              /\ FooterValid(last.header)
              /\ Count(last.header) = 1
         ELSE Count(last.header) = 0

\* C17: after create and after every completed call the entries of the free
\* list are in ascending order of the size their headers hold
C17_Ordering ==
  pc = "ready" =>
    \A i \in 1..(Len(free_list) - 1) :
      HSize(mem, 0, free_list[i]) <= HSize(mem, 0, free_list[i + 1])

\* C18: kfree_heap of a non-null pointer whose header magic or footer magic
\* is not HEAP_MAGIC aborts, and changes no word of memory, no entry of the
\* free list and not end_address
C18_CorruptionCheck ==
  [][(last'.op = "free" /\ last'.p # 0 /\ ~last'.magic_ok)
       => (pc' = "aborted" /\ UNCHANGED <<mem, free_list, end_address>>)]_vars

\* C19: after a page-aligned request was served from a hole at pos whose
\* payload start is not on a page boundary, the free list holds a free block
\* at pos that ends where the header of the allocated block begins and has
\* a valid header and footer, and the returned pointer is page-aligned
C19_PrefixHole ==
  (Returned /\ last.page_align = 1
     /\ Add(last.hole_pos, SIZEOF_HEADER) % PAGE_SIZE # 0) =>
    /\ Count(last.hole_pos) >= 1
    /\ HMagic(mem, 0, last.hole_pos) = HEAP_MAGIC
    /\ IsFree(last.hole_pos)
    /\ Add(last.hole_pos, HSize(mem, 0, last.hole_pos)) = HeaderOf(last.ret)
    /\ FooterValid(last.hole_pos)
    /\ last.ret % PAGE_SIZE = 0

\* C20: the hole a kalloc_heap call writes after the allocated block, and
\* for an aligned request the hole it writes in front of it, has room for a
\* header and a footer; a smaller remainder is not written
C20_NoSliver ==
  Returned =>
    /\ last.rest = 0 \/ last.rest >= SIZEOF_HEADER + SIZEOF_FOOTER
    /\ last.aligned => last.prefix >= SIZEOF_HEADER + SIZEOF_FOOTER

====
